---- MODULE Spec2Model ----
(***************************************************************************)
(* Paperly: the /papers aggregation handler, the /related similarity       *)
(* handler (server) and the filter/sort/related-click logic of the React  *)
(* client.                                                                 *)
(*                                                                         *)
(* JavaScript strings that the code inspects character by character       *)
(* (source labels) are sequences of one-character strings.  Texts that    *)
(* the code only tokenises (title, summary) are sequences of words.       *)
(***************************************************************************)
EXTENDS Integers, Sequences, FiniteSets, Bags, TLC

VARIABLES
    cachedPapers,   \* let cachedPapers = []          (server, line 15)
    topicCache,     \* let topicCache = {}            (server, line 16): own properties
    req,            \* in-flight /papers handlers: position and locals of each
    last,           \* the most recently completed /papers call (topic, response)
    rel,            \* the most recent /related exchange (index sent, response)
    client,         \* React state of App: papers, filteredPapers, selectedSources, sortBy
    nsIn,           \* input handed to normalizeSource (pure-function specification)
    nsOut,          \* its output
    summ            \* the /summarize handler: position, request body, response

vars == <<cachedPapers, topicCache, req, last, rel, client, nsIn, nsOut, summ>>

----------------------------------------------------------------------------
(* Bounds *)

\* number of /papers handlers that may be in flight at once
MaxInFlight == 2

\* largest number of chunks concatenated into a normalizeSource input
MaxChunks == 2

----------------------------------------------------------------------------
(* JavaScript values *)

\* undefined / null / a missing property, for text-valued fields
Undefined == <<"undefined">>

\* undefined / null / a missing property, for number-valued fields
NoNum == -1

\* !v for a text-valued field
Falsy(v) == v = Undefined \/ v = <<>>

\* a || b  for text-valued fields
Or(a, b) == IF Falsy(a) THEN b ELSE a

\* an array-valued field: present with its items, or undefined
List(items) == [defined |-> TRUE, items |-> items]
NoList == [defined |-> FALSE, items |-> <<>>]

\* a || b  for number-valued fields (0 and undefined are falsy)
OrNum(a, b) == IF a = NoNum \/ a = 0 THEN b ELSE a

UpperChars == <<"A","B","C","D","E","F","G","H","I","J","K","L","M",
                "N","O","P","Q","R","S","T","U","V","W","X","Y","Z">>

LowerChars == <<"a","b","c","d","e","f","g","h","i","j","k","l","m",
                "n","o","p","q","r","s","t","u","v","w","x","y","z">>

\* String.prototype.toLowerCase, one character
toLowerChar(c) ==
    IF \E i \in 1..26 : UpperChars[i] = c
    THEN LowerChars[CHOOSE i \in 1..26 : UpperChars[i] = c]
    ELSE c

\* String.prototype.toUpperCase, one character
toUpperChar(c) ==
    IF \E i \in 1..26 : LowerChars[i] = c
    THEN UpperChars[CHOOSE i \in 1..26 : LowerChars[i] = c]
    ELSE c

toLowerCase(s) == [i \in 1..Len(s) |-> toLowerChar(s[i])]

\* String.prototype.includes
includes(s, sub) ==
    \E i \in 0..(Len(s) - Len(sub)) : SubSeq(s, i + 1, i + Len(sub)) = sub

\* s.charAt(0).toUpperCase() + s.slice(1)
CapitalizeFirst(s) ==
    IF s = <<>> THEN <<>> ELSE <<toUpperChar(s[1])>> \o SubSeq(s, 2, Len(s))

----------------------------------------------------------------------------
(* normalizeSource, lines 31-41 *)

\* the substring table, in the order of the if-chain
SourceKeys == << <<"a","r","x","i","v">>,
                 <<"o","p","e","n","a","l","e","x">>,
                 <<"i","e","e","e">>,
                 <<"s","p","r","i","n","g","e","r">>,
                 <<"e","l","s","e","v","i","e","r">>,
                 <<"a","c","m">> >>

SourceLabels == << <<"a","r","X","i","v">>,
                   <<"O","p","e","n","A","l","e","x">>,
                   <<"I","E","E","E">>,
                   <<"S","p","r","i","n","g","e","r">>,
                   <<"E","l","s","e","v","i","e","r">>,
                   <<"A","C","M">> >>

UnknownLabel == <<"U","n","k","n","o","w","n">>

\* faulty variant: the fallback capitalises the raw text instead of the lower-cased one
normalizeSource_RawFallback(source) ==
    IF Falsy(source) THEN UnknownLabel
    ELSE LET s == toLowerCase(source) IN
         IF \E k \in 1..Len(SourceKeys) : includes(s, SourceKeys[k])
         THEN SourceLabels[CHOOSE k \in 1..Len(SourceKeys) :
                  /\ includes(s, SourceKeys[k])
                  /\ \A j \in 1..(k - 1) : ~includes(s, SourceKeys[j])]
         ELSE CapitalizeFirst(source)

normalizeSource(source) ==
    IF Falsy(source) THEN UnknownLabel
    ELSE LET s == toLowerCase(source) IN
         IF includes(s, SourceKeys[1]) THEN SourceLabels[1]
         ELSE IF includes(s, SourceKeys[2]) THEN SourceLabels[2]
         ELSE IF includes(s, SourceKeys[3]) THEN SourceLabels[3]
         ELSE IF includes(s, SourceKeys[4]) THEN SourceLabels[4]
         ELSE IF includes(s, SourceKeys[5]) THEN SourceLabels[5]
         ELSE IF includes(s, SourceKeys[6]) THEN SourceLabels[6]
         ELSE CapitalizeFirst(s)

----------------------------------------------------------------------------
(* Numbers *)

\* new Date().getFullYear()
CurrentYear == 2026

\* Math.log in thousandths, floor(1000 * ln n), for n in 1..64
LnTable ==
  <<0, 693, 1098, 1386, 1609, 1791, 1945, 2079,
    2197, 2302, 2397, 2484, 2564, 2639, 2708, 2772,
    2833, 2890, 2944, 2995, 3044, 3091, 3135, 3178,
    3218, 3258, 3295, 3332, 3367, 3401, 3433, 3465,
    3496, 3526, 3555, 3583, 3610, 3637, 3663, 3688,
    3713, 3737, 3761, 3784, 3806, 3828, 3850, 3871,
    3891, 3912, 3931, 3951, 3970, 3988, 4007, 4025,
    4043, 4060, 4077, 4094, 4110, 4127, 4143, 4158>>

MathLog(n) == LnTable[n]

----------------------------------------------------------------------------
(* Sequences *)

\* Array.prototype.map
Map(f(_), s) == [i \in 1..Len(s) |-> f(s[i])]

RECURSIVE Concat(_)
\* [...a, ...b, ...]
Concat(ss) == IF ss = <<>> THEN <<>> ELSE Head(ss) \o Concat(Tail(ss))

RECURSIVE FilterSeq(_, _)
\* Array.prototype.filter
FilterSeq(keep(_), s) ==
    IF s = <<>> THEN <<>>
    ELSE IF keep(Head(s)) THEN <<Head(s)>> \o FilterSeq(keep, Tail(s))
    ELSE FilterSeq(keep, Tail(s))

RECURSIVE InsertDesc(_, _, _)
\* x placed behind every element whose key is not smaller than its own
InsertDesc(key(_), x, s) ==
    IF s = <<>> THEN <<x>>
    ELSE IF key(Head(s)) >= key(x) THEN <<Head(s)>> \o InsertDesc(key, x, Tail(s))
    ELSE <<x>> \o s

RECURSIVE SortDesc(_, _)
\* Array.prototype.sort((a,b) => key(b) - key(a)): stable, descending by key
SortDesc(key(_), s) ==
    IF s = <<>> THEN <<>>
    ELSE InsertDesc(key, s[Len(s)], SortDesc(key, SubSeq(s, 1, Len(s) - 1)))

\* the multiset of the elements of a sequence
BagOf(s) == [x \in {s[i] : i \in 1..Len(s)} |-> Cardinality({i \in 1..Len(s) : s[i] = x})]

----------------------------------------------------------------------------
(* assignBadges, lines 44-51 *)

\* faulty variant: the citation threshold is exclusive
assignBadges_StrictCitations(p) ==
    (IF p.citations > 50 THEN <<"Highly Cited">> ELSE <<>>)
    \o (IF includes(toLowerCase(p.source), SourceKeys[1]) THEN <<"Open Access">> ELSE <<>>)
    \o (IF p.year >= CurrentYear - 1 THEN <<"New">> ELSE <<>>)

assignBadges(p) ==
    (IF p.citations >= 50 THEN <<"Highly Cited">> ELSE <<>>)
    \o (IF includes(toLowerCase(p.source), SourceKeys[1]) THEN <<"Open Access">> ELSE <<>>)
    \o (IF p.year >= CurrentYear - 1 THEN <<"New">> ELSE <<>>)

----------------------------------------------------------------------------
(* Source adapters: the mapping of each provider's records to Papers *)

NoTitle == <<"No", "title">>
NoAbstract == <<"No", "abstract">>
NoAbstractProvided == <<"No", "abstract", "provided">>
NoLink == <<"#">>

S_OpenAlex == <<"O","p","e","n","A","l","e","x">>
S_arXiv == <<"a","r","X","i","v">>
S_SemanticScholar == <<"S","e","m","a","n","t","i","c"," ","S","c","h","o","l","a","r">>
S_Springer == <<"S","p","r","i","n","g","e","r">>

\* OpenAlex, lines 178-187
openAlexPaper(p) ==
    [ title     |-> Or(p.title, NoTitle),
      summary   |-> Or(p.abstract, NoAbstract),
      link      |-> Or(p.id, NoLink),
      authors   |-> IF ~p.authorships.defined THEN <<>>
                    ELSE [i \in 1..Len(p.authorships.items) |-> p.authorships.items[i].author],
      source    |-> normalizeSource(Or(p.host_venue, S_OpenAlex)),
      year      |-> OrNum(p.publication_year, 0),
      citations |-> OrNum(p.cited_by_count, 0),
      tags      |-> <<>> ]

\* a.author.display_name of an authorship without author is a TypeError
openAlexThrows(p) ==
    /\ p.authorships.defined
    /\ \E i \in 1..Len(p.authorships.items) : p.authorships.items[i].author = Undefined

\* arXiv, lines 197-204: one paper per <entry> block of the feed
arxivPaper(e) ==
    [ title     |-> Or(e.title, NoTitle),
      summary   |-> Or(e.summary, NoAbstract),
      link      |-> Or(e.id, NoLink),
      authors   |-> e.names,
      source    |-> S_arXiv,
      year      |-> 0,
      citations |-> 0,
      tags      |-> <<>> ]

\* Semantic Scholar, lines 211-220
semPaper(p) ==
    [ title     |-> Or(p.title, NoTitle),
      summary   |-> Or(p.abstract, NoAbstract),
      link      |-> Or(p.url, NoLink),
      authors   |-> IF ~p.authors.defined THEN <<>>
                    ELSE [i \in 1..Len(p.authors.items) |-> p.authors.items[i].name],
      source    |-> normalizeSource(Or(p.venue, S_SemanticScholar)),
      year      |-> OrNum(p.year, 0),
      citations |-> OrNum(p.citationCount, 0),
      tags      |-> <<>> ]

\* Springer, lines 107-116
springerPaper(p) ==
    [ title     |-> Or(p.title, NoTitle),
      summary   |-> Or(p.abstract, NoAbstractProvided),
      link      |-> IF p.url.items = <<>> THEN NoLink ELSE Or(p.url.items[1], NoLink),
      authors   |-> IF ~p.creators.defined THEN <<>>
                    ELSE [i \in 1..Len(p.creators.items) |-> p.creators.items[i].creator],
      source    |-> Or(p.publisher, S_Springer),
      year      |-> OrNum(p.onlineDate, 0),
      citations |-> 0,
      tags      |-> IF p.subjects.defined THEN p.subjects.items ELSE <<>> ]

\* p.url[0] of a record without url is a TypeError
springerThrows(p) == ~p.url.defined

\* what the function handed to safeFetch does with the provider's answer:
\* it throws on a transport error and on a record its mapping cannot dereference
adapterRun(answer, paperOf(_), throws(_)) ==
    IF ~answer.ok \/ \E i \in 1..Len(answer.data) : throws(answer.data[i])
    THEN [threw |-> TRUE, value |-> <<>>]
    ELSE [threw |-> FALSE, value |-> Map(paperOf, answer.data)]

NeverThrows(p) == FALSE

\* safeFetch, lines 25-28
safeFetch(run) == IF run.threw THEN <<>> ELSE run.value

\* fetchSpringer, lines 96-125: try { ... map ... } catch { return [] }
fetchSpringer(answer) ==
    LET run == adapterRun(answer, springerPaper, springerThrows)
    IN  IF run.threw THEN <<>> ELSE run.value

----------------------------------------------------------------------------
(* What the providers may answer.  An answer is a transport failure       *)
(* (ok = FALSE: network error, rejected or missing credential) or the     *)
(* list of raw records of the payload.                                     *)

Failure == [ok |-> FALSE, data |-> <<>>]
Payload(records) == [ok |-> TRUE, data |-> records]

S_IEEETrans == <<"I","E","E","E"," ","T","r","a","n","s">>
S_arXivOrg == <<"a","r","X","i","v",".","o","r","g">>
S_NatureP == <<"N","a","t","u","r","e"," ","P">>
S_BMC == <<"B","M","C">>
S_ACMSigmod == <<"A","C","M"," ","S","I","G","M","O","D">>

OA_ml ==
  << [ title |-> <<"deep","learning">>, abstract |-> <<"neural","nets">>, id |-> <<"oa1">>,
       authorships |-> List(<< [author |-> <<"Ann">>] >>), host_venue |-> S_IEEETrans,
       publication_year |-> CurrentYear - 6, cited_by_count |-> 50 ],
     [ title |-> <<"graph","learning">>, abstract |-> Undefined, id |-> <<"oa2">>,
       authorships |-> NoList, host_venue |-> Undefined,
       publication_year |-> CurrentYear, cited_by_count |-> 2 ] >>

AX_ml ==
  << [ title |-> <<"deep","learning">>, summary |-> <<"deep","graph","nets">>,
       id |-> <<"ax1">>, names |-> << <<"Bo">> >> ],
     [ title |-> Undefined, summary |-> <<"learning","survey">>,
       id |-> <<"ax2">>, names |-> <<>> ] >>

SS_ml ==
  << [ title |-> <<"neural","learning">>, abstract |-> <<"graph","nets">>, url |-> <<"ss1">>,
       venue |-> S_arXivOrg, citationCount |-> 49, year |-> CurrentYear - 1,
       authors |-> List(<< [name |-> <<"Cy">>] >>) ],
     [ title |-> <<"learning","theory">>, abstract |-> Undefined, url |-> Undefined,
       venue |-> S_NatureP, citationCount |-> 60, year |-> NoNum,
       authors |-> NoList ] >>

SP_ml ==
  << [ title |-> <<"deep","learning","survey">>, abstract |-> <<"survey">>,
       creators |-> List(<< [creator |-> <<"Di">>] >>), publisher |-> Undefined,
       url |-> List(<< <<"sp1">> >>), onlineDate |-> CurrentYear - 2, subjects |-> List(<<"AI">>) ],
     [ title |-> <<"quantum","optics">>, abstract |-> Undefined,
       creators |-> NoList, publisher |-> S_BMC,
       url |-> List(<< <<"sp2">> >>), onlineDate |-> CurrentYear, subjects |-> NoList ] >>

OA_db ==
  << [ title |-> <<"query","learning">>, abstract |-> <<"index","nets">>, id |-> <<"oa3">>,
       authorships |-> List(<< [author |-> <<"Ed">>] >>), host_venue |-> S_ACMSigmod,
       publication_year |-> CurrentYear - 1, cited_by_count |-> 7 ] >>

SP_db ==
  << [ title |-> <<"query","index">>, abstract |-> <<"index">>,
       creators |-> NoList, publisher |-> Undefined,
       url |-> List(<<>>), onlineDate |-> NoNum, subjects |-> List(<<"DB">>) ] >>

\* a batch whose second record has no url
SP_db_bad ==
  SP_db \o
  << [ title |-> <<"query","plans">>, abstract |-> Undefined,
       creators |-> NoList, publisher |-> Undefined,
       url |-> NoList, onlineDate |-> CurrentYear, subjects |-> NoList ] >>

OA_os ==
  << [ title |-> <<"index","theory">>, abstract |-> Undefined, id |-> <<"oa4">>,
       authorships |-> List(<< [author |-> <<"Fay">>] >>), host_venue |-> Undefined,
       publication_year |-> CurrentYear - 4, cited_by_count |-> NoNum ] >>

\* a batch whose second record has an authorship without author
OA_os_bad ==
  OA_os \o
  << [ title |-> <<"query","theory">>, abstract |-> Undefined, id |-> <<"oa5">>,
       authorships |-> List(<< [author |-> Undefined] >>), host_venue |-> Undefined,
       publication_year |-> CurrentYear, cited_by_count |-> 1 ] >>

AX_os ==
  << [ title |-> <<"index","plans">>, summary |-> <<"index","survey">>,
       id |-> <<"ax3">>, names |-> <<>> ] >>

\* the result count the requests ask for: per_page=5, max_results=5, limit=5
ResultCount == 5

\* a request that names no result count
NoLimit == 0

\* the result count in the request each adapter sends: lines 177, 192 and 210
\* name 5, the params of lines 99-102 name none
requestLimit(adapter) ==
    CASE adapter = "openalex" -> ResultCount
      [] adapter = "arxiv"    -> ResultCount
      [] adapter = "sem"      -> ResultCount
      [] adapter = "springer" -> NoLimit

\* the records a provider holding the records available sends back: as many as
\* the request asks for, its whole page when the request names no count
served(adapter, available) ==
    IF requestLimit(adapter) = NoLimit \/ Len(available) <= requestLimit(adapter)
    THEN available
    ELSE SubSeq(available, 1, requestLimit(adapter))

IdWords == <<"r1", "r2", "r3", "r4", "r5", "r6", "r7", "r8">>

\* one record more than a request asks for
OA_big ==
  [ i \in 1..(ResultCount + 1) |->
      [ title |-> <<"graph","theory">>, abstract |-> <<"graph","survey">>, id |-> <<IdWords[i]>>,
        authorships |-> NoList, host_venue |-> Undefined,
        publication_year |-> CurrentYear - 1, cited_by_count |-> i ] ]

SP_big ==
  [ i \in 1..(ResultCount + 1) |->
      [ title |-> <<"quantum","theory">>, abstract |-> <<"optics">>,
        creators |-> NoList, publisher |-> Undefined,
        url |-> List(<< <<IdWords[i]>> >>), onlineDate |-> CurrentYear - i, subjects |-> NoList ] ]

\* req.query.topic values sent to /papers ("" also stands for a missing topic)
Topics == {"", "ml", "db", "constructor"}

Adapters == {"openalex", "arxiv", "sem", "springer"}

Answers(adapter, topic) ==
    IF topic = "ml" THEN
        CASE adapter = "openalex" -> {Failure, Payload(OA_ml)}
          [] adapter = "arxiv"    -> {Failure, Payload(AX_ml)}
          [] adapter = "sem"      -> {Failure, Payload(SS_ml)}
          [] adapter = "springer" -> {Failure, Payload(SP_ml)}
    ELSE IF topic = "db" THEN
        CASE adapter = "openalex" -> {Payload(OA_db)}
          [] adapter = "arxiv"    -> {Payload(<<>>)}
          [] adapter = "sem"      -> {Failure}
          [] adapter = "springer" -> {Payload(SP_db), Payload(SP_db_bad)}
    ELSE IF topic = "big" THEN
        CASE adapter = "openalex" -> {Payload(served("openalex", OA_big))}
          [] adapter = "arxiv"    -> {Payload(<<>>)}
          [] adapter = "sem"      -> {Failure}
          [] adapter = "springer" -> {Failure, Payload(served("springer", SP_big))}
    ELSE IF topic = "os" THEN
        CASE adapter = "openalex" -> {Payload(OA_os), Payload(OA_os_bad)}
          [] adapter = "arxiv"    -> {Payload(AX_os)}
          [] adapter = "sem"      -> {Failure}
          [] adapter = "springer" -> {Failure}
    ELSE
        CASE adapter = "openalex" -> {Failure}
          [] adapter = "arxiv"    -> {Payload(<<>>)}
          [] adapter = "sem"      -> {Failure}
          [] adapter = "springer" -> {Failure}

----------------------------------------------------------------------------
(* The /papers handler, lines 171-257 *)

Slots == 1..MaxInFlight

\* properties every JavaScript object inherits from Object.prototype
ObjectPrototypeKeys == {"constructor"}

\* faulty variant: an empty array counts as a miss
topicCacheGet_EmptyIsMiss(topic) ==
    IF topic \in DOMAIN topicCache /\ topicCache[topic] # <<>>
    THEN [truthy |-> TRUE, isArray |-> TRUE, papers |-> topicCache[topic]]
    ELSE IF topic \in ObjectPrototypeKeys
    THEN [truthy |-> TRUE, isArray |-> FALSE, papers |-> <<>>]
    ELSE [truthy |-> FALSE, isArray |-> FALSE, papers |-> <<>>]

\* topicCache[topic]: an own property (an array of papers), an inherited
\* property (a function), or undefined
topicCacheGet(topic) ==
    IF topic \in DOMAIN topicCache
    THEN [truthy |-> TRUE, isArray |-> TRUE, papers |-> topicCache[topic]]
    ELSE IF topic \in ObjectPrototypeKeys
    THEN [truthy |-> TRUE, isArray |-> FALSE, papers |-> <<>>]
    ELSE [truthy |-> FALSE, isArray |-> FALSE, papers |-> <<>>]

\* res.json({ papers: v }): JSON.stringify drops a property holding a function
jsonPapers(v) == [status |-> 200, hasPapers |-> v.isArray, papers |-> v.papers]

NoResponse == [status |-> 0, hasPapers |-> FALSE, papers |-> <<>>]

\* what a provider that was not asked has answered
NotAsked == [ok |-> FALSE, data |-> <<>>, asked |-> FALSE]

IdleReq ==
    [ pc |-> "idle", topic |-> "", openAlexPapers |-> <<>>, arxivPapers |-> <<>>,
      semPapers |-> <<>>, answers |-> [a \in Adapters |-> NotAsked], hung |-> FALSE ]

NoCall ==
    [ valid |-> FALSE, topic |-> "", hit |-> FALSE, resp |-> NoResponse,
      answers |-> [a \in Adapters |-> NotAsked] ]

NoRelated ==
    [sent |-> FALSE, query |-> [numeric |-> FALSE, value |-> 0], status |-> 0,
     clickedPaper |-> <<>>, relatedPapers |-> <<>>]

\* faulty variant: age raises the score
trendingScore_AgeBonus(p) ==
    MathLog(p.citations + 1) + (IF p.year # 0 THEN (CurrentYear - p.year) * 500 ELSE 0)

\* faulty variant: an unknown year (0) is taken as a real year
trendingScore_UnknownYearPenalised(p) ==
    MathLog(p.citations + 1) + (CurrentYear - p.year) * (-500)

\* the trending score of lines 251-252, in thousandths
trendingScore(p) ==
    MathLog(p.citations + 1) + (IF p.year # 0 THEN (CurrentYear - p.year) * (-500) ELSE 0)

\* faulty variant: the Springer list is left out of the spread
combine_NoSpringer(openAlexPapers, arxivPapers, semPapers, springerPapers) ==
    Concat(<<openAlexPapers, arxivPapers, semPapers>>)

\* lines 231-238: the adapter-priority concatenation
combine(openAlexPapers, arxivPapers, semPapers, springerPapers) ==
    Concat(<<openAlexPapers, arxivPapers, semPapers, springerPapers>>)

\* line 243
withBadges(p) == [p EXCEPT !.tags = assignBadges(p)]

\* faulty variant: the list is left as it was combined
trendingSort_Unsorted(papers) == papers

\* lines 248-254: allPapers.sort(...) in place
trendingSort(papers) == SortDesc(trendingScore, papers)

\* faulty variant: the sort works on a copy and the stored array keeps its order
storedAfterSort_Copy(papers) == papers

\* what cachedPapers and topicCache[topic], assigned at lines 245-246, hold when
\* the handler ends: they reference the array that line 250 sorts in place
storedAfterSort(papers) == trendingSort(papers)

\* the adapters whose request has been sent when the handler stands at pc:
\* each axios.get is called only after the await before it has resumed
requestsSent(pc) ==
    CASE pc = "openalex" -> {"openalex"}
      [] pc = "arxiv"    -> {"openalex", "arxiv"}
      [] pc = "sem"      -> {"openalex", "arxiv", "sem"}
      [] pc = "springer" -> {"openalex", "arxiv", "sem", "springer"}
      [] OTHER           -> {}

\* lines 172-173, then the OpenAlex request is sent (line 177)
PapersStartServer(s, topic) ==
    /\ req[s].pc = "idle"
    /\ LET hit == topicCacheGet(topic) IN
       IF hit.truthy
       THEN /\ req' = req
            /\ last' = [NoCall EXCEPT !.valid = TRUE, !.topic = topic, !.hit = TRUE,
                                      !.resp = jsonPapers(hit)]
       ELSE /\ req' = [req EXCEPT ![s] = [IdleReq EXCEPT !.pc = "openalex", !.topic = topic]]
            /\ last' = last
    /\ rel' = NoRelated
    /\ UNCHANGED <<cachedPapers, topicCache>>

\* GET /papers?topic=... sent by any HTTP client
PapersStart(s, topic) ==
    /\ PapersStartServer(s, topic)
    /\ UNCHANGED <<client, nsIn, nsOut, summ>>

\* lines 176-188 resume with OpenAlex's answer; the arXiv request is sent
OpenAlexAnswers(s, answer) ==
    /\ req[s].pc = "openalex"
    /\ ~req[s].hung
    /\ answer \in Answers("openalex", req[s].topic)
    /\ req' = [req EXCEPT ![s].pc = "arxiv",
                          ![s].openAlexPapers =
                              safeFetch(adapterRun(answer, openAlexPaper, openAlexThrows)),
                          ![s].answers["openalex"] = answer]
    /\ rel' = NoRelated
    /\ UNCHANGED <<cachedPapers, topicCache, last, client, nsIn, nsOut, summ>>

\* lines 191-206 resume with arXiv's answer; the Semantic Scholar request is sent
ArxivAnswers(s, answer) ==
    /\ req[s].pc = "arxiv"
    /\ ~req[s].hung
    /\ answer \in Answers("arxiv", req[s].topic)
    /\ req' = [req EXCEPT ![s].pc = "sem",
                          ![s].arxivPapers =
                              safeFetch(adapterRun(answer, arxivPaper, NeverThrows)),
                          ![s].answers["arxiv"] = answer]
    /\ rel' = NoRelated
    /\ UNCHANGED <<cachedPapers, topicCache, last, client, nsIn, nsOut, summ>>

\* lines 209-221 resume with Semantic Scholar's answer; the Springer request is sent
SemAnswers(s, answer) ==
    /\ req[s].pc = "sem"
    /\ ~req[s].hung
    /\ answer \in Answers("sem", req[s].topic)
    /\ req' = [req EXCEPT ![s].pc = "springer",
                          ![s].semPapers =
                              safeFetch(adapterRun(answer, semPaper, NeverThrows)),
                          ![s].answers["sem"] = answer]
    /\ rel' = NoRelated
    /\ UNCHANGED <<cachedPapers, topicCache, last, client, nsIn, nsOut, summ>>

\* lines 223-256 resume with Springer's answer and run to the response:
\* combine, badges, store in cachedPapers and topicCache, sort in place
\* (the stored array is the one being sorted), respond
SpringerAnswers(s, answer) ==
    /\ req[s].pc = "springer"
    /\ ~req[s].hung
    /\ answer \in Answers("springer", req[s].topic)
    /\ LET r == req[s]
           springerPapers == fetchSpringer(answer)
           badged == Map(withBadges,
                         combine(r.openAlexPapers, r.arxivPapers, r.semPapers, springerPapers))
           allPapers == trendingSort(badged)
       IN
       /\ cachedPapers' = storedAfterSort(badged)
       /\ topicCache' = [t \in DOMAIN topicCache \cup {r.topic} |->
                            IF t = r.topic THEN storedAfterSort(badged) ELSE topicCache[t]]
       /\ req' = [req EXCEPT ![s] = IdleReq]
       /\ last' = [ valid |-> TRUE, topic |-> r.topic, hit |-> FALSE,
                    resp |-> [status |-> 200, hasPapers |-> TRUE, papers |-> allPapers],
                    answers |-> [r.answers EXCEPT !["springer"] = answer] ]
    /\ rel' = NoRelated
    /\ UNCHANGED <<client, nsIn, nsOut, summ>>

\* the provider the handler waits for never answers: axios.get is called without
\* a timeout, so its promise never settles and the await never resumes
ProviderHangs(s) ==
    /\ req[s].pc # "idle"
    /\ ~req[s].hung
    /\ req' = [req EXCEPT ![s].hung = TRUE]
    /\ rel' = NoRelated
    /\ UNCHANGED <<cachedPapers, topicCache, last, client, nsIn, nsOut, summ>>

----------------------------------------------------------------------------
(* The /related handler, lines 260-283 *)

\* parseInt of a text that does not start with a number
NaN == -1000

\* req.query.index values: a decimal number (from -1 to the corpus size) or some other text
IndexQueries(corpus) ==
    {[numeric |-> TRUE, value |-> v] : v \in -1..Len(corpus)}
      \cup {[numeric |-> FALSE, value |-> 0]}

\* line 261
parseInt(q) == IF q.numeric THEN q.value ELSE NaN

\* String.prototype.toLowerCase on a word
toLowerWord(w) == IF w = "No" THEN "no" ELSE w

\* (p.title + " " + p.summary).toLowerCase(), tokenised
documentOf(p) == Map(toLowerWord, p.title \o p.summary)

\* natural.TfIdf: occurrences of a term in a document
tf(term, doc) == Cardinality({k \in 1..Len(doc) : doc[k] = term})

\* natural.TfIdf: 1 + ln(N / (1 + number of documents holding the term)), in thousandths
idf(term, docs) ==
    LET df == Cardinality({d \in 1..Len(docs) : tf(term, docs[d]) > 0})
    IN  1000 + MathLog(Len(docs)) - MathLog(1 + df)

RECURSIVE tfidfSum(_, _, _)
tfidfSum(terms, d, docs) ==
    IF terms = <<>> THEN 0
    ELSE tf(Head(terms), docs[d]) * idf(Head(terms), docs) + tfidfSum(Tail(terms), d, docs)

\* tfidf.tfidf(clickedText, i), line 273 (i counted from 1 here)
tfidf(clickedText, i, corpus) == tfidfSum(clickedText, i, Map(documentOf, corpus))

\* faulty variant: the clicked paper is scored like the others
scoresOf_SelfScored(corpus, index) ==
    [i \in 1..Len(corpus) |->
        [paper |-> corpus[i], score |-> tfidf(documentOf(corpus[index]), i, corpus)]]

\* lines 271-274 (index and i counted from 1 here)
scoresOf(corpus, index) ==
    [i \in 1..Len(corpus) |->
        IF i = index THEN [paper |-> corpus[i], score |-> -1]
        ELSE [paper |-> corpus[i], score |-> tfidf(documentOf(corpus[index]), i, corpus)]]

scoreKey(e) == e.score
positiveScore(e) == e.score > 0
paperOfScore(e) == e.paper

\* Array.prototype.slice(0, n)
Take(s, n) == SubSeq(s, 1, IF Len(s) < n THEN Len(s) ELSE n)

\* lines 276-280
relatedOf(corpus, index) ==
    Map(paperOfScore, Take(SortDesc(scoreKey, FilterSeq(positiveScore, scoresOf(corpus, index))), 5))

\* faulty variant: the index one past the end is accepted
paperFound_OffByOne(corpus, index) == index >= 0 /\ index <= Len(corpus)

\* line 262: cachedPapers[index] is undefined outside 0..length-1 and for NaN
paperFound(corpus, index) == index >= 0 /\ index < Len(corpus)

\* the response of the handler
relatedResponse(corpus, q) ==
    LET index == parseInt(q) IN
    IF ~paperFound(corpus, index)
    THEN [sent |-> TRUE, query |-> q, status |-> 404, clickedPaper |-> <<>>, relatedPapers |-> <<>>]
    ELSE [sent |-> TRUE, query |-> q, status |-> 200,
          \* an array read past the end gives undefined, which JSON leaves out
          clickedPaper |-> IF index < Len(corpus) THEN <<corpus[index + 1]>> ELSE <<>>,
          relatedPapers |-> IF index < Len(corpus) THEN relatedOf(corpus, index + 1) ELSE <<>>]

\* faulty variant: the sort by score is applied to the corpus itself
corpusAfterRelated_SortedInPlace(corpus, q) ==
    IF ~paperFound(corpus, parseInt(q)) THEN corpus
    ELSE Map(paperOfScore, SortDesc(scoreKey, scoresOf(corpus, parseInt(q) + 1)))

\* cachedPapers when the handler ends: forEach and map read it, and filter,
\* sort, slice and map of lines 276-280 work on the scores array that map made
corpusAfterRelated(corpus, q) == corpus

RelatedServer(q) ==
    /\ rel' = relatedResponse(cachedPapers, q)
    /\ cachedPapers' = corpusAfterRelated(cachedPapers, q)
    /\ UNCHANGED <<topicCache, req, last>>

\* GET /related?index=... sent by any HTTP client
Related(q) ==
    /\ q \in IndexQueries(cachedPapers)
    /\ RelatedServer(q)
    /\ UNCHANGED <<client, nsIn, nsOut, summ>>

----------------------------------------------------------------------------
(* The /summarize handler, lines 286-339.  A text is a sequence of tokens: *)
(* words, ":" for a colon, "nl" for a newline, "*" for a bullet.           *)

\* null in a JSON body
Null == -2

\* req.body values: title and summary texts, authors array, year number
SummarizeBodies ==
    { [ title |-> <<"deep","learning">>, summary |-> <<"neural","nets">>,
        authors |-> List(<< <<"Ann">>, <<"Bo">> >>), year |-> CurrentYear - 6 ],
      [ title |-> <<"graph","learning">>, summary |-> <<"survey">>,
        authors |-> NoList, year |-> NoNum ],
      [ title |-> Undefined, summary |-> <<"neural","nets">>,
        authors |-> NoList, year |-> CurrentYear ],
      [ title |-> <<"deep","learning">>, summary |-> <<>>,
        authors |-> List(<<>>), year |-> 0 ] }

\* what the Gemini endpoint may answer: a transport or HTTP error, a body
\* without candidates, or a generated text
GeminiFailure == [ok |-> FALSE, hasText |-> FALSE, text |-> <<>>]
GeminiNoCandidates == [ok |-> TRUE, hasText |-> FALSE, text |-> <<>>]
GeminiText(text) == [ok |-> TRUE, hasText |-> TRUE, text |-> text]

GeminiAnswerSet ==
    { GeminiFailure, GeminiNoCandidates,
      GeminiText(<<"deep","nets","learning">>),
      GeminiText(<<"Summary",":","nl","*","deep","nets","nl","*","learning">>),
      GeminiText(<<"Here",":">>) }

NoSummaryGenerated == <<"No","summary","generated.">>

\* lines 294-306: the parts of the prompt that depend on the request
promptOf(body) ==
    [ title    |-> body.title,
      authors  |-> IF body.authors.defined THEN body.authors.items ELSE << <<"Unknown">> >>,
      year     |-> IF body.year = NoNum \/ body.year = 0 THEN <<"Unknown">> ELSE <<body.year>>,
      abstract |-> body.summary ]

\* line 323: replace(/^.*?:\s*/s, '') removes everything up to the first colon
dropPreamble(text) ==
    IF \E i \in 1..Len(text) : text[i] = ":"
    THEN SubSeq(text, 1 + (CHOOSE i \in 1..Len(text) :
                              text[i] = ":" /\ \A j \in 1..(i - 1) : text[j] # ":"),
                Len(text))
    ELSE text

isWord(token) == token \notin {"nl", "*"}

\* line 326: newlines and bullets become blanks, runs of blanks one blank, trim
toParagraph(text) == FilterSeq(isWord, text)

\* lines 320-326
cleanSummary(answer) ==
    toParagraph(dropPreamble(IF answer.hasText /\ answer.text # <<>>
                             THEN answer.text ELSE NoSummaryGenerated))

NoSummary ==
    [ pc |-> "idle", body |-> <<>>, prompt |-> <<>>, status |-> 0,
      summary |-> <<>>, authors |-> <<>>, year |-> Null ]

\* lines 286-310: validation, then the prompt is posted to Gemini (line 313)
SummarizeStart(body) ==
    /\ summ.pc = "idle"
    /\ summ' = IF Falsy(body.title) \/ Falsy(body.summary)
               THEN [NoSummary EXCEPT !.status = 400]
               ELSE [NoSummary EXCEPT !.pc = "gemini", !.body = <<body>>,
                                      !.prompt = <<promptOf(body)>>]
    /\ UNCHANGED <<cachedPapers, topicCache, req, last, rel, client, nsIn, nsOut>>

\* lines 313-338 resume with Gemini's answer
GeminiAnswers(answer) ==
    /\ summ.pc = "gemini"
    /\ answer \in GeminiAnswerSet
    /\ summ' = IF ~answer.ok
               THEN [NoSummary EXCEPT !.status = 500]
               ELSE [NoSummary EXCEPT
                        !.status = 200,
                        !.summary = cleanSummary(answer),
                        !.authors = IF summ.body[1].authors.defined
                                    THEN summ.body[1].authors.items ELSE <<>>,
                        !.year = IF summ.body[1].year = NoNum \/ summ.body[1].year = 0
                                 THEN Null ELSE summ.body[1].year]
    /\ UNCHANGED <<cachedPapers, topicCache, req, last, rel, client, nsIn, nsOut>>

----------------------------------------------------------------------------
(* The React client, src/client/src/App.js *)

\* largest number of source checkboxes ticked at once
MaxSelected == 2

SortOptions ==
    {"Relevance", "Newest", "Oldest", "Most Cited", "Least Cited", "A to Z", "Z to A"}

\* topics typed into the search box (handleSearch returns at once on an empty one)
ClientTopics == {"ml", "db"}

NoClient ==
    [ papers |-> <<>>, filteredPapers |-> <<>>, selectedSources |-> <<>>,
      sortBy |-> "Relevance", loading |-> FALSE ]

\* lines 78-79, times 2520 (exact for ages up to 9):
\* (citations + 1) * (1 / (currentYear - (year || currentYear) + 1))
relevanceScore(p) ==
    (p.citations + 1) * (2520 \div (CurrentYear - OrNum(p.year, CurrentYear) + 1))

\* the words of the titles, in the order localeCompare gives them
WordOrder == <<"deep", "graph", "index", "learning", "neural", "No", "optics",
               "plans", "quantum", "query", "survey", "theory", "title">>

WordRank(w) == CHOOSE i \in 1..Len(WordOrder) : WordOrder[i] = w

\* a number that orders titles (of up to 3 words) as localeCompare does
titleKey(p) ==
    LET t == p.title
        d(k) == IF k <= Len(t) THEN WordRank(t[k]) ELSE 0
    IN  d(1) * 196 + d(2) * 14 + d(3)

newestKey(p) == p.year
oldestKey(p) == -p.year
mostCitedKey(p) == p.citations
leastCitedKey(p) == -p.citations
zToAKey(p) == titleKey(p)
aToZKey(p) == -titleKey(p)

InSeq(x, seq) == \E i \in 1..Len(seq) : seq[i] = x

\* applyFilterAndSort, lines 66-106
applyFilterAndSort(papers, selectedSources, sortBy) ==
    LET selected(p) == InSeq(p.source, selectedSources)
        temp == IF Len(selectedSources) > 0 THEN FilterSeq(selected, papers) ELSE papers
    IN  CASE sortBy = "Relevance"   -> SortDesc(relevanceScore, temp)
          [] sortBy = "Newest"      -> SortDesc(newestKey, temp)
          [] sortBy = "Oldest"      -> SortDesc(oldestKey, temp)
          [] sortBy = "Most Cited"  -> SortDesc(mostCitedKey, temp)
          [] sortBy = "Least Cited" -> SortDesc(leastCitedKey, temp)
          [] sortBy = "A to Z"      -> SortDesc(aToZKey, temp)
          [] sortBy = "Z to A"      -> SortDesc(zToAKey, temp)
          [] OTHER                  -> temp

\* handleSearch, lines 38-53: the state is cleared and GET /papers reaches the server
HandleSearch(topic) ==
    /\ topic # ""
    /\ ~client.loading
    /\ client' = [NoClient EXCEPT !.loading = TRUE]
    /\ PapersStartServer(1, topic)
    /\ UNCHANGED <<nsIn, nsOut, summ>>

\* handleSearch, lines 54-63, when the response arrives: setPapers,
\* setFilteredPapers, then the effect of lines 108-110
ReceivePapers ==
    /\ client.loading
    /\ req[1].pc = "idle"
    /\ last.valid /\ last.resp.hasPapers
    /\ client' = [client EXCEPT
            !.papers = last.resp.papers,
            !.filteredPapers =
                applyFilterAndSort(last.resp.papers, client.selectedSources, client.sortBy),
            !.loading = FALSE]
    /\ rel' = NoRelated
    /\ UNCHANGED <<cachedPapers, topicCache, req, last, nsIn, nsOut, summ>>

\* handleCheckboxChange, lines 116-122, and the effect of lines 108-110
HandleCheckboxChange(source) ==
    /\ \E i \in 1..Len(client.papers) : client.papers[i].source = source
    /\ LET notIt(x) == x # source
           sel == IF InSeq(source, client.selectedSources)
                  THEN FilterSeq(notIt, client.selectedSources)
                  ELSE Append(client.selectedSources, source)
       IN  /\ Len(sel) <= MaxSelected
           /\ client' = [client EXCEPT
                  !.selectedSources = sel,
                  !.filteredPapers = applyFilterAndSort(client.papers, sel, client.sortBy)]
    /\ rel' = NoRelated
    /\ UNCHANGED <<cachedPapers, topicCache, req, last, nsIn, nsOut, summ>>

\* the sort dropdown, line 164, and the effect of lines 108-110
SetSortBy(option) ==
    /\ client.papers # <<>>
    /\ option # client.sortBy
    /\ client' = [client EXCEPT
            !.sortBy = option,
            !.filteredPapers = applyFilterAndSort(client.papers, client.selectedSources, option)]
    /\ rel' = NoRelated
    /\ UNCHANGED <<cachedPapers, topicCache, req, last, nsIn, nsOut, summ>>

\* PaperCard.fetchRelated, lines 194-200, on the card rendered with index idx
\* (line 182): GET /related?index=idx reaches the server
FetchRelated(idx) ==
    /\ idx \in 0..(Len(client.filteredPapers) - 1)
    /\ RelatedServer([numeric |-> TRUE, value |-> idx])
    /\ UNCHANGED <<client, nsIn, nsOut, summ>>

----------------------------------------------------------------------------
(* Specifications *)

NotNormalized == <<"pending">>

Init ==
    /\ cachedPapers = <<>>
    /\ topicCache = <<>>
    /\ req = [s \in Slots |-> IdleReq]
    /\ last = NoCall
    /\ rel = NoRelated
    /\ client = NoClient
    /\ nsIn = <<>>
    /\ nsOut = NotNormalized
    /\ summ = NoSummary

\* One /papers request at a time, any topic, any provider answers, and /related
\* requests in between
Next ==
    \/ \E topic \in Topics : PapersStart(1, topic)
    \/ \E a \in Answers("openalex", req[1].topic) : OpenAlexAnswers(1, a)
    \/ \E a \in Answers("arxiv", req[1].topic) : ArxivAnswers(1, a)
    \/ \E a \in Answers("sem", req[1].topic) : SemAnswers(1, a)
    \/ \E a \in Answers("springer", req[1].topic) : SpringerAnswers(1, a)
    \/ \E q \in IndexQueries(cachedPapers) : Related(q)

Spec == Init /\ [][Next]_vars

\* The browser client driving the server: searches, filter and sort changes,
\* clicks on "See Related Papers"
NextClient ==
    \/ \E topic \in ClientTopics : HandleSearch(topic)
    \/ \E a \in Answers("openalex", req[1].topic) : OpenAlexAnswers(1, a)
    \/ \E a \in Answers("arxiv", req[1].topic) : ArxivAnswers(1, a)
    \/ \E a \in Answers("sem", req[1].topic) : SemAnswers(1, a)
    \/ \E a \in Answers("springer", req[1].topic) : SpringerAnswers(1, a)
    \/ ReceivePapers
    \/ \E i \in 1..Len(client.papers) : HandleCheckboxChange(client.papers[i].source)
    \/ \E option \in SortOptions : SetSortBy(option)
    \/ \E idx \in 0..(Len(client.filteredPapers) - 1) : FetchRelated(idx)

SpecClient == Init /\ [][NextClient]_vars

\* Overlapping /papers requests (up to MaxInFlight handlers suspended at their
\* awaits) and /related requests in between
ConcurrentTopics == {"", "db", "os"}

NextConcurrent ==
    \/ \E s \in Slots, topic \in ConcurrentTopics : PapersStart(s, topic)
    \/ \E s \in Slots : \E a \in Answers("openalex", req[s].topic) : OpenAlexAnswers(s, a)
    \/ \E s \in Slots : \E a \in Answers("arxiv", req[s].topic) : ArxivAnswers(s, a)
    \/ \E s \in Slots : \E a \in Answers("sem", req[s].topic) : SemAnswers(s, a)
    \/ \E s \in Slots : \E a \in Answers("springer", req[s].topic) : SpringerAnswers(s, a)
    \/ \E q \in IndexQueries(cachedPapers) : Related(q)

SpecConcurrent == Init /\ [][NextConcurrent]_vars

\* One /papers request at a time whose providers answer or hang.  A provider
\* that answers is eventually heard: the event loop resumes the awaiting handler
HangTopics == {"ml", "db", "os"}

NextHang ==
    \/ \E topic \in HangTopics : PapersStart(1, topic)
    \/ \E a \in Answers("openalex", req[1].topic) : OpenAlexAnswers(1, a)
    \/ \E a \in Answers("arxiv", req[1].topic) : ArxivAnswers(1, a)
    \/ \E a \in Answers("sem", req[1].topic) : SemAnswers(1, a)
    \/ \E a \in Answers("springer", req[1].topic) : SpringerAnswers(1, a)
    \/ ProviderHangs(1)

SpecHang ==
    /\ Init
    /\ [][NextHang]_vars
    /\ WF_vars(\E a \in Answers("openalex", req[1].topic) : OpenAlexAnswers(1, a))
    /\ WF_vars(\E a \in Answers("arxiv", req[1].topic) : ArxivAnswers(1, a))
    /\ WF_vars(\E a \in Answers("sem", req[1].topic) : SemAnswers(1, a))
    /\ WF_vars(\E a \in Answers("springer", req[1].topic) : SpringerAnswers(1, a))

\* One /papers request at a time for topics on which a provider holds more
\* records than a request asks for, and /related requests in between
LimitTopics == {"big", "db"}

NextLimit ==
    \/ \E topic \in LimitTopics : PapersStart(1, topic)
    \/ \E a \in Answers("openalex", req[1].topic) : OpenAlexAnswers(1, a)
    \/ \E a \in Answers("arxiv", req[1].topic) : ArxivAnswers(1, a)
    \/ \E a \in Answers("sem", req[1].topic) : SemAnswers(1, a)
    \/ \E a \in Answers("springer", req[1].topic) : SpringerAnswers(1, a)
    \/ \E q \in IndexQueries(cachedPapers) : Related(q)

SpecLimit == Init /\ [][NextLimit]_vars

\* /papers requests one at a time, with /related and /summarize requests at any
\* point in between
ReadOnlyTopics == {"db", "os"}

NextReadOnly ==
    \/ \E topic \in ReadOnlyTopics : PapersStart(1, topic)
    \/ \E a \in Answers("openalex", req[1].topic) : OpenAlexAnswers(1, a)
    \/ \E a \in Answers("arxiv", req[1].topic) : ArxivAnswers(1, a)
    \/ \E a \in Answers("sem", req[1].topic) : SemAnswers(1, a)
    \/ \E a \in Answers("springer", req[1].topic) : SpringerAnswers(1, a)
    \/ \E q \in IndexQueries(cachedPapers) : Related(q)
    \/ \E body \in SummarizeBodies : SummarizeStart(body)
    \/ \E answer \in GeminiAnswerSet : GeminiAnswers(answer)

SpecReadOnly == Init /\ [][NextReadOnly]_vars

\* normalizeSource applied to texts built from a few chunks
SourceChunks ==
    { <<"a","r","X","i","v">>,
      <<"A","R","X","I","V">>,
      <<"o","p","e","n","a","l","e","x">>,
      <<"I","E","E","E">>,
      <<"S","p","r","i","n","g","e","r">>,
      <<"E","L","S","E","V","I","E","R">>,
      <<"a","c","m">>,
      <<" ","T","r","a","n","s","a","c","t","i","o","n","s">>,
      <<"r","a","n","d","o","m","j","o","u","r","n","a","l">>,
      <<"N","a","t","u","r","e">>,
      <<"M","I","T">>,
      <<" ">>,
      <<"4">> }

RECURSIVE ChunkTexts(_)
ChunkTexts(n) ==
    IF n = 0 THEN {<<>>}
    ELSE ChunkTexts(n - 1) \cup {t \o c : t \in ChunkTexts(n - 1), c \in SourceChunks}

InitNorm ==
    /\ cachedPapers = <<>>
    /\ topicCache = <<>>
    /\ req = [s \in Slots |-> IdleReq]
    /\ last = NoCall
    /\ rel = NoRelated
    /\ client = NoClient
    /\ nsIn \in ChunkTexts(MaxChunks) \cup {Undefined}
    /\ nsOut = NotNormalized
    /\ summ = NoSummary

Normalize ==
    /\ nsOut = NotNormalized
    /\ nsOut' = normalizeSource(nsIn)
    /\ UNCHANGED <<cachedPapers, topicCache, req, last, rel, client, nsIn, summ>>

NextNorm == Normalize

SpecNorm == InitNorm /\ [][NextNorm]_vars

----------------------------------------------------------------------------
(* Properties *)

\* the papers an adapter contributes for a provider answer: the mapped records
\* of a payload it can map, nothing for a failure or an unmappable payload
Usable(adapter, answer) ==
    /\ answer.ok
    /\ adapter = "openalex" => \A i \in 1..Len(answer.data) : ~openAlexThrows(answer.data[i])
    /\ adapter = "springer" => \A i \in 1..Len(answer.data) : ~springerThrows(answer.data[i])

Contribution(adapter, answer) ==
    IF ~Usable(adapter, answer) THEN <<>>
    ELSE CASE adapter = "openalex" -> Map(openAlexPaper, answer.data)
           [] adapter = "arxiv"    -> Map(arxivPaper, answer.data)
           [] adapter = "sem"      -> Map(semPaper, answer.data)
           [] adapter = "springer" -> Map(springerPaper, answer.data)

Untagged(p) == [p EXCEPT !.tags = <<>>]

\* the response of the last completed /papers call was computed, not served from the cache
LastWasMiss == last.valid /\ ~last.hit

\* C1: every /papers call answers with a sequence of papers, and with the
\* empty sequence when every adapter failed.
C1_AlwaysASequence ==
    last.valid =>
        /\ last.resp.status = 200
        /\ last.resp.hasPapers
        /\ (~last.hit /\ \A a \in Adapters : ~Usable(a, last.answers[a]))
              => last.resp.papers = <<>>

\* C2: the papers of a cache-miss response are, as a multiset, exactly the
\* papers of the adapters whose provider gave a usable answer.
C2_FanIn ==
    LastWasMiss =>
        BagOf(Map(Untagged, last.resp.papers))
          = BagOf(Map(Untagged, Concat(<<Contribution("openalex", last.answers["openalex"]),
                                         Contribution("arxiv", last.answers["arxiv"]),
                                         Contribution("sem", last.answers["sem"]),
                                         Contribution("springer", last.answers["springer"])>>)))

\* some adapters failed, others did not, and the response holds papers
C2_Witness ==
    /\ LastWasMiss
    /\ \E a \in Adapters : ~Usable(a, last.answers[a])
    /\ \E a \in Adapters : Usable(a, last.answers[a]) /\ last.answers[a].data # <<>>
    /\ last.resp.papers # <<>>

\* C3: a /papers call for the topic of the call completed just before it is
\* served from the cache, sends no adapter request and returns the same response.
\* (A call starts either by sending the OpenAlex request, which moves its handler
\* off "idle", or by answering from the cache, which changes last and not req.)
C3_CacheIdempotence ==
    [][ /\ \A s \in Slots :
              (last.valid /\ req[s].pc = "idle" /\ req'[s].pc # "idle")
                  => req'[s].topic # last.topic
        /\ (last.valid /\ last' # last /\ req' = req /\ last'.topic = last.topic)
            => (last'.hit /\ last'.resp = last.resp) ]_vars

\* a hit that follows a miss for a topic whose result was empty
C3_Witness ==
    /\ last.valid /\ last.hit /\ last.topic = ""
    /\ last.resp.hasPapers /\ last.resp.papers = <<>>

\* the similarity score of corpus entry i against the clicked entry
ScoreAgainst(corpus, clicked, i) == tfidf(documentOf(corpus[clicked]), i, corpus)

\* C4: the related list holds at most 5 corpus entries other than the clicked
\* one, each with a positive score, in non-increasing score order, equal
\* scores in corpus order.
C4_RelatedList ==
    (rel.sent /\ rel.status = 200) =>
        LET corpus == cachedPapers
            clicked == rel.query.value + 1
            R == rel.relatedPapers
            score == [i \in 1..Len(corpus) |-> ScoreAgainst(corpus, clicked, i)]
            others == (1..Len(corpus)) \ {clicked}
        IN  /\ Len(R) <= 5
            /\ \A k \in 1..Len(R) :
                  \E i \in others : R[k] = corpus[i] /\ score[i] > 0
            /\ \A k, l \in 1..Len(R) : k < l =>
                  \E i, j \in others :
                      /\ i # j /\ R[k] = corpus[i] /\ R[l] = corpus[j]
                      /\ score[i] > score[j] \/ (score[i] = score[j] /\ i < j)

\* more than five other papers score positive, the list is cut to five and
\* two neighbours in it score the same
C4_Witness ==
    /\ rel.sent /\ rel.status = 200
    /\ Len(rel.relatedPapers) = 5
    /\ Cardinality({i \in 1..Len(cachedPapers) :
          i # rel.query.value + 1 /\ ScoreAgainst(cachedPapers, rel.query.value + 1, i) > 0}) > 5
    /\ \E i, j \in 1..Len(cachedPapers) :
          /\ i < j
          /\ \E k \in 1..4 : rel.relatedPapers[k] = cachedPapers[i]
                             /\ rel.relatedPapers[k + 1] = cachedPapers[j]
          /\ ScoreAgainst(cachedPapers, rel.query.value + 1, i)
               = ScoreAgainst(cachedPapers, rel.query.value + 1, j)

\* C5: /related answers 404 exactly when the index is not a number in
\* 0..corpusSize-1, and 200 otherwise.
C5_NotFoundIffOutOfBounds ==
    rel.sent =>
        LET inBounds == /\ rel.query.numeric
                        /\ rel.query.value >= 0
                        /\ rel.query.value < Len(cachedPapers)
        IN  /\ rel.status = 404 <=> ~inBounds
            /\ rel.status = 200 <=> inBounds
            /\ inBounds => rel.clickedPaper = <<cachedPapers[rel.query.value + 1]>>

\* the index equal to the size of a non-empty corpus is refused
C5_Witness ==
    /\ rel.sent /\ rel.status = 404
    /\ rel.query.numeric /\ rel.query.value = Len(cachedPapers)
    /\ cachedPapers # <<>>

\* C6: after a /papers call that returned a sequence, the corpus is that sequence.
C6_CorpusIsLastResponse ==
    (last.valid /\ last.resp.hasPapers) => cachedPapers = last.resp.papers

\* the text the provider gave as the source of a record, before normalisation
RawSourceText(adapter, rec) ==
    CASE adapter = "openalex" -> Or(rec.host_venue, S_OpenAlex)
      [] adapter = "arxiv"    -> S_arXiv
      [] adapter = "sem"      -> Or(rec.venue, S_SemanticScholar)
      [] adapter = "springer" -> Or(rec.publisher, S_Springer)

ExpectedBadges(citations, year, rawSource) ==
    (IF citations >= 50 THEN {"Highly Cited"} ELSE {})
      \cup (IF includes(toLowerCase(rawSource), SourceKeys[1]) THEN {"Open Access"} ELSE {})
      \cup (IF year >= CurrentYear - 1 THEN {"New"} ELSE {})

\* C9: the tags of every paper of a cache-miss response are exactly its
\* badges, computed from its citations, its year and the provider's source
\* text; tags the provider supplied are gone.
C9_TagsAreBadges ==
    LastWasMiss =>
        \A k \in 1..Len(last.resp.papers) :
            LET p == last.resp.papers[k] IN
            \E a \in Adapters : \E i \in 1..Len(Contribution(a, last.answers[a])) :
                /\ Contribution(a, last.answers[a])[i] = [p EXCEPT
                        !.tags = Contribution(a, last.answers[a])[i].tags]
                /\ {p.tags[j] : j \in 1..Len(p.tags)}
                     = ExpectedBadges(p.citations, p.year,
                                      RawSourceText(a, last.answers[a].data[i]))
                /\ Cardinality({p.tags[j] : j \in 1..Len(p.tags)}) = Len(p.tags)

\* the response holds a paper with exactly 50 citations, a paper whose provider
\* text contains arxiv in another spelling, and a paper that came with provider tags
C9_Witness ==
    /\ LastWasMiss
    /\ \E k \in 1..Len(last.resp.papers) : last.resp.papers[k].citations = 50
    /\ Usable("sem", last.answers["sem"])
    /\ \E i \in 1..Len(last.answers["sem"].data) : last.answers["sem"].data[i].venue = S_arXivOrg
    /\ Usable("springer", last.answers["springer"])
    /\ \E i \in 1..Len(last.answers["springer"].data) :
          last.answers["springer"].data[i].subjects.defined

\* C10: in a response, of two papers with equal citations and known years the
\* older one is not placed first, and of two papers of the same year the less
\* cited one is not placed first.
C10_TrendingOrder ==
    (last.valid /\ last.resp.hasPapers) =>
        \A k, l \in 1..Len(last.resp.papers) : k < l =>
            LET a == last.resp.papers[k]
                b == last.resp.papers[l]
            IN  /\ (a.citations = b.citations /\ a.year # 0 /\ b.year # 0) => a.year >= b.year
                /\ (a.year = b.year) => a.citations >= b.citations

\* the response holds a pair with equal citations and different known years and
\* a pair of one year with different citations, both out of arrival order
C10_Witness ==
    /\ LastWasMiss
    /\ \E k, l \in 1..Len(last.resp.papers) :
          /\ k < l
          /\ last.resp.papers[k].citations = last.resp.papers[l].citations
          /\ last.resp.papers[l].year # 0
          /\ last.resp.papers[k].year > last.resp.papers[l].year
          /\ last.resp.papers[k].link = <<"sp2">> /\ last.resp.papers[l].link = <<"sp1">>
    /\ \E k, l \in 1..Len(last.resp.papers) :
          /\ k < l
          /\ last.resp.papers[k].year = last.resp.papers[l].year
          /\ last.resp.papers[k].year # 0
          /\ last.resp.papers[k].citations > last.resp.papers[l].citations

\* C7: the paper the server treats as clicked is the paper on the card the user clicked.
C7_ClickedIsShown ==
    rel.sent =>
        /\ rel.status = 200
        /\ rel.clickedPaper = <<client.filteredPapers[rel.query.value + 1]>>

\* the label the substring table gives a text: that of the first key, in table
\* order, that the lower-cased text contains; 0 if it contains none
FirstKey(text) ==
    LET hits == {k \in 1..Len(SourceKeys) : includes(toLowerCase(text), SourceKeys[k])}
    IN  IF hits = {} THEN 0 ELSE CHOOSE k \in hits : \A j \in hits : k <= j

NormExamples ==
    /\ nsIn = <<"I","E","E","E"," ","T","r","a","n","s","a","c","t","i","o","n","s">> => nsOut = <<"I","E","E","E">>
    /\ nsIn = <<>> => nsOut = UnknownLabel
    /\ nsIn = <<"r","a","n","d","o","m","j","o","u","r","n","a","l">> => nsOut = <<"R","a","n","d","o","m","j","o","u","r","n","a","l">>

\* C8: a text holding one of the keys, in any case, gets the label of the first
\* such key in table order; an empty or missing text gets "Unknown"; any other
\* text comes back with a capital in its first position only (lower-cased, first
\* character upper-cased).
C8_LowerCasedFallback ==
    nsOut # NotNormalized =>
        /\ NormExamples
        /\ nsOut = IF Falsy(nsIn) THEN UnknownLabel
                   ELSE IF FirstKey(nsIn) # 0 THEN SourceLabels[FirstKey(nsIn)]
                   ELSE CapitalizeFirst(toLowerCase(nsIn))

\* a text without any key and with a capital behind its first character was normalised
C8_Witness ==
    /\ nsOut # NotNormalized
    /\ ~Falsy(nsIn) /\ FirstKey(nsIn) = 0
    /\ \E i \in 2..Len(nsIn) : toLowerChar(nsIn[i]) # nsIn[i]

\* the Paper an adapter's mapping makes of one provider record
PaperOf(adapter, rec) ==
    CASE adapter = "openalex" -> openAlexPaper(rec)
      [] adapter = "arxiv"    -> arxivPaper(rec)
      [] adapter = "sem"      -> semPaper(rec)
      [] adapter = "springer" -> springerPaper(rec)

\* the record is one the adapter's mapping can dereference
WellFormed(adapter, rec) ==
    /\ adapter = "openalex" => ~openAlexThrows(rec)
    /\ adapter = "springer" => ~springerThrows(rec)

\* paper p of a response was made by adapter a from record i of its provider's answer
MadeFrom(p, a, i) ==
    /\ Usable(a, last.answers[a])
    /\ i \in 1..Len(last.answers[a].data)
    /\ Untagged(p) = Untagged(PaperOf(a, last.answers[a].data[i]))

\* C11: while a /papers handler waits for a provider, the request to every
\* adapter has already been sent.
C11_AllRequestsSent ==
    \A s \in Slots : req[s].pc # "idle" => requestsSent(req[s].pc) = Adapters

\* C13: the source of every paper of a cache-miss response is normalizeSource
\* of the source text its provider gave.
C13_CanonicalSource ==
    LastWasMiss =>
        \A k \in 1..Len(last.resp.papers) :
            \E a \in Adapters : \E i \in 1..Len(last.answers[a].data) :
                /\ MadeFrom(last.resp.papers[k], a, i)
                /\ last.resp.papers[k].source
                     = normalizeSource(RawSourceText(a, last.answers[a].data[i]))

\* the papers of a call in adapter-priority (arrival) order, from the answers
\* its providers gave
ArrivalOf(answers) ==
    Concat(<<Contribution("openalex", answers["openalex"]),
             Contribution("arxiv", answers["arxiv"]),
             Contribution("sem", answers["sem"]),
             Contribution("springer", answers["springer"])>>)

\* the papers of the last call in arrival order
ArrivalOrder == ArrivalOf(last.answers)

\* ln(citations + 1) - 0.5 * (currentYear - year), in thousandths, without the
\* recency term for the unknown year
RankingScore(p) ==
    IF p.year = 0 THEN MathLog(p.citations + 1)
    ELSE MathLog(p.citations + 1) - 500 * (CurrentYear - p.year)

\* the place of arrival i in the ranking: behind every higher score and behind
\* every earlier arrival of the same score
PlaceOf(A, i) ==
    1 + Cardinality({j \in 1..Len(A) : RankingScore(A[j]) > RankingScore(A[i])})
      + Cardinality({j \in 1..(i - 1) : RankingScore(A[j]) = RankingScore(A[i])})

\* C14: a cache-miss response is the arrival order rearranged by non-increasing
\* score, papers of equal score staying in arrival order, an unknown year
\* adding no recency term.
C14_StableRanking ==
    LastWasMiss =>
        /\ Len(last.resp.papers) = Len(ArrivalOrder)
        /\ \A i \in 1..Len(ArrivalOrder) :
              Untagged(last.resp.papers[PlaceOf(ArrivalOrder, i)]) = Untagged(ArrivalOrder[i])

\* the response differs from the arrival order, holds papers of two adapters
\* with the same score, and a cited paper of unknown year
C14_Witness ==
    /\ LastWasMiss
    /\ Map(Untagged, last.resp.papers) # Map(Untagged, ArrivalOrder)
    /\ \E k, l \in 1..Len(last.resp.papers) :
          /\ k < l
          /\ RankingScore(last.resp.papers[k]) = RankingScore(last.resp.papers[l])
          /\ last.resp.papers[k].source = S_arXiv
          /\ last.resp.papers[l].source = S_BMC
    /\ \E k \in 1..Len(last.resp.papers) :
          last.resp.papers[k].year = 0 /\ last.resp.papers[k].citations > 0

\* the arrival order with the badges of line 243
ArrivalOrderWithBadges ==
    [i \in 1..Len(ArrivalOrder) |->
        [ArrivalOrder[i] EXCEPT !.tags = assignBadges(ArrivalOrder[i])]]

\* C16: after a cache-miss call the corpus and the cache entry of its topic
\* hold the papers in arrival order, not in the ranked order of the response.
C16_StoredUnranked ==
    LastWasMiss =>
        /\ cachedPapers = ArrivalOrderWithBadges
        /\ last.topic \in DOMAIN topicCache
        /\ topicCache[last.topic] = ArrivalOrderWithBadges

\* C18: a call is answered from the cache only if an earlier call for exactly
\* that topic stored an entry, and the answer then holds a sequence of papers.
C18_HitOnlyAfterPut ==
    (last.valid /\ last.hit) =>
        /\ last.topic \in DOMAIN topicCache
        /\ last.resp.hasPapers

\* C19: every well-formed record of a batch the provider delivered appears in
\* the cache-miss response, whatever the other records of the batch are.
C19_PerRecordAbsorption ==
    LastWasMiss =>
        \A a \in Adapters :
            last.answers[a].ok =>
                \A i \in 1..Len(last.answers[a].data) :
                    WellFormed(a, last.answers[a].data[i]) =>
                        \E k \in 1..Len(last.resp.papers) :
                            Untagged(last.resp.papers[k])
                              = Untagged(PaperOf(a, last.answers[a].data[i]))

\* the provider's text for the summary of a record
RawSummary(adapter, rec) == IF adapter = "arxiv" THEN rec.summary ELSE rec.abstract

\* the provider's text for the link of a record
RawLink(adapter, rec) ==
    CASE adapter = "openalex" -> rec.id
      [] adapter = "arxiv"    -> rec.id
      [] adapter = "sem"      -> rec.url
      [] adapter = "springer" ->
            IF rec.url.defined /\ rec.url.items # <<>> THEN rec.url.items[1] ELSE Undefined

\* C20: every paper of a cache-miss response has every field populated, a
\* field its provider left out holding the canonical fallback: "No title",
\* "No abstract", "#", no authors, year 0, citations 0.
C20_CanonicalFallbacks ==
    LastWasMiss =>
        \A k \in 1..Len(last.resp.papers) :
            LET p == last.resp.papers[k] IN
            /\ ~Falsy(p.title) /\ ~Falsy(p.summary) /\ ~Falsy(p.link) /\ ~Falsy(p.source)
            /\ p.year # NoNum /\ p.citations # NoNum
            /\ \E a \in Adapters : \E i \in 1..Len(last.answers[a].data) :
                  /\ MadeFrom(p, a, i)
                  /\ Falsy(last.answers[a].data[i].title) => p.title = NoTitle
                  /\ Falsy(RawSummary(a, last.answers[a].data[i])) => p.summary = NoAbstract
                  /\ Falsy(RawLink(a, last.answers[a].data[i])) => p.link = NoLink

\* C16 (amended): after a cache-miss call the corpus and the cache entry of its
\* topic are the ranked sequence of the response, and /related addresses papers
\* by their place in that ranked sequence.
C16_StoredRanked ==
    LastWasMiss =>
        /\ cachedPapers = last.resp.papers
        /\ last.topic \in DOMAIN topicCache
        /\ topicCache[last.topic] = last.resp.papers
        /\ BagOf(cachedPapers) = BagOf(ArrivalOrderWithBadges)
        /\ \A k, l \in 1..Len(cachedPapers) :
              k < l => RankingScore(cachedPapers[k]) >= RankingScore(cachedPapers[l])
        /\ (rel.sent /\ rel.status = 200) =>
              rel.clickedPaper = <<last.resp.papers[rel.query.value + 1]>>

\* ranking moved papers, and /related was asked for an index at which the
\* ranked order and the arrival order hold different papers
C16_Witness ==
    /\ LastWasMiss
    /\ last.resp.papers # ArrivalOrderWithBadges
    /\ rel.sent /\ rel.status = 200
    /\ rel.clickedPaper # <<ArrivalOrderWithBadges[rel.query.value + 1]>>

\* C12: a /papers call whose provider hangs still answers in the end.
C12_EventuallyResponds ==
    req[1].hung ~> (req[1].pc = "idle")

\* every paper of the corpus carries its badges and no paper stands before one
\* of higher score
FullyFormed(corpus) ==
    /\ \A k \in 1..Len(corpus) : corpus[k].tags = assignBadges(corpus[k])
    /\ \A k, l \in 1..Len(corpus) :
          k < l => RankingScore(corpus[k]) >= RankingScore(corpus[l])

\* C15: whatever /papers handlers are in flight, the corpus a /related request
\* reads is fully formed: it is empty, or it became in one step the complete,
\* badge-assigned, ranked result of the aggregation that finished in that step.
C15_FullyFormedCorpus ==
    [][ /\ FullyFormed(cachedPapers')
        /\ cachedPapers' = <<>> \/ \E t \in DOMAIN topicCache' : cachedPapers' = topicCache'[t]
        /\ cachedPapers' # cachedPapers =>
              /\ last'.valid /\ ~last'.hit
              /\ cachedPapers' = last'.resp.papers
              /\ BagOf(Map(Untagged, cachedPapers'))
                   = BagOf(Map(Untagged, ArrivalOf(last'.answers))) ]_vars

\* /related answered from a corpus of several papers while two /papers handlers
\* were in flight, one of them past its first provider
C15_Witness ==
    /\ rel.sent /\ rel.status = 200
    /\ Len(cachedPapers) >= 2
    /\ \A s \in 1..2 : req[s].pc # "idle"
    /\ \E s \in 1..2 : req[s].openAlexPapers # <<>>

\* C17: an entry of the topic cache, once stored, is never removed or changed.
C17_EntriesNeverChange ==
    [][ \A t \in DOMAIN topicCache :
            t \in DOMAIN topicCache' /\ topicCache'[t] = topicCache[t] ]_vars

\* the number of papers of the last response that adapter a made
PapersFrom(a) ==
    Cardinality({k \in 1..Len(last.resp.papers) :
        \E i \in 1..Len(last.answers[a].data) : MadeFrom(last.resp.papers[k], a, i)})

\* C21: every adapter asks its provider for 5 results, so a cache-miss
\* response holds at most 5 papers of each adapter.
C21_AtMostFivePerAdapter ==
    LastWasMiss => \A a \in Adapters : PapersFrom(a) <= ResultCount

\* C22: a /related or /summarize step, answered with success or with an error,
\* leaves the corpus and every cache entry as they were, and a /related request
\* repeated with no /papers step in between gets the answer it got before.
C22_ReadOnly ==
    [][ /\ ((rel'.sent /\ rel' # rel) \/ summ' # summ)
              => (cachedPapers' = cachedPapers /\ topicCache' = topicCache)
        /\ (rel.sent /\ rel'.sent /\ rel'.query = rel.query) => rel' = rel ]_vars

\* /related found related papers in a corpus of several papers and /summarize
\* failed, with entries in the cache
C22_Witness ==
    /\ rel.sent /\ rel.status = 200 /\ rel.relatedPapers # <<>>
    /\ summ.status = 500
    /\ Len(cachedPapers) >= 2
    /\ DOMAIN topicCache # {}

====
